---- MODULE Spec2Model ----
(***************************************************************************)
(* A model of src/mosaic-canvas.js: the Paper.js scope of the mosaic       *)
(* canvas (grid, tracked polygon paths, drawing order), the UI handlers    *)
(* that edit the grid, the view's pan and zoom handlers, and the CSV       *)
(* loaders with their row splitter and colour normalisation.               *)
(*                                                                         *)
(* The file defines loadCSV three times (lines 14, 267 and 635) and        *)
(* parseCSVRowJS three times (205, 238, 825).  Each loader is modelled as  *)
(* an entry point of its own (variants "replace", "fixed" and "append"),   *)
(* paired with the row splitter written next to it: replace 14-203 with    *)
(* the splitter of 205-223, fixed 267-325 with that of 238-265, append     *)
(* 635-823 with that of 825-842.  (Loaded as one script, the last          *)
(* declaration of each name is the one a call by name reaches.)            *)
(*                                                                         *)
(* Numbers.  JavaScript numbers are modelled as exact rationals            *)
(* [n |-> numerator, d |-> denominator] with d > 0 and gcd(n, d) = 1, and  *)
(* NaN as [n |-> 0, d |-> 0].  Rounding of IEEE doubles is not modelled.   *)
(* The zoom factor alone is written as a product of powers (see the view   *)
(* handlers), so that the wheel steps up to its limit stay exact.          *)
(*                                                                         *)
(* Records.  A record constructor lists its fields in the order in which   *)
(* TLC keeps them, and the sets an action draws from are definitions of    *)
(* their own: TLC then has nothing to reorder in a value that its workers  *)
(* share.                                                                  *)
(***************************************************************************)
EXTENDS Integers, Sequences, FiniteSets, TLC

----------------------------------------------------------------------------
(* Rational numbers with NaN *)

\* F applied to the values of a (and b): the model's form of
\* "var x = a; ... F(x)".  It only fixes the order of evaluation: TLC
\* evaluates a once, where a plain operator argument is evaluated at each use.
Bind(a, F(_)) == CHOOSE r \in {F(x) : x \in {a}} : TRUE
Bind2(a, b, F(_, _)) == CHOOSE r \in {F(x, y) : x \in {a}, y \in {b}} : TRUE

Abs(x) == IF x < 0 THEN -x ELSE x

RECURSIVE GCD(_, _)
GCD(a, b) == IF b = 0 THEN a ELSE Bind2(b, a % b, GCD)

NaN == [n |-> 0, d |-> 0]

IsNaN(a) == a.d = 0

\* The rational n/d in lowest terms (d # 0).
R(n, d) ==
    Bind2(GCD(Abs(n), Abs(d)), IF d < 0 THEN -1 ELSE 1,
          LAMBDA g, sgn : [n |-> sgn * (n \div g), d |-> sgn * (d \div g)])

Num(k) == [n |-> k, d |-> 1]

AddValues(a, b) ==
    IF IsNaN(a) \/ IsNaN(b) THEN NaN
    ELSE Bind((a.d \div GCD(a.d, b.d)) * b.d,
              LAMBDA l : R(a.n * (l \div a.d) + b.n * (l \div b.d), l))

MulValues(a, b) ==
    IF IsNaN(a) \/ IsNaN(b) THEN NaN
    ELSE Bind2(GCD(Abs(a.n), b.d), GCD(Abs(b.n), a.d),
               LAMBDA g1, g2 : [n |-> (a.n \div g1) * (b.n \div g2),
                                d |-> (a.d \div g2) * (b.d \div g1)])

RNeg(a) == Bind(a, LAMBDA x : IF IsNaN(x) THEN NaN ELSE [n |-> -x.n, d |-> x.d])

\* 1 / a for a # 0
RInv(a) == Bind(a, LAMBDA x : IF IsNaN(x) THEN NaN ELSE R(x.d, x.n))

RAdd(a, b) == Bind2(a, b, AddValues)
RSub(a, b) == RAdd(a, RNeg(b))
RMul(a, b) == Bind2(a, b, MulValues)

\* a / b for b # 0 (the model never divides by zero: a tile size is never 0
\* and the grid never has 0 columns or rows).
RDiv(a, b) == RMul(a, RInv(b))

\* a <= b, a < b as JavaScript compares numbers: false when either is NaN.
LeqValues(a, b) == ~IsNaN(a) /\ ~IsNaN(b) /\ a.n * b.d <= b.n * a.d
RLeq(a, b) == Bind2(a, b, LeqValues)
RLt(a, b)  == Bind2(a, b, LAMBDA x, y : ~IsNaN(x) /\ ~IsNaN(y) /\ x.n * y.d < y.n * x.d)

\* Math.min(a, b), Math.max(a, b): NaN when either is NaN.
RMin(a, b) ==
    Bind2(a, b, LAMBDA x, y : IF IsNaN(x) \/ IsNaN(y) THEN NaN
                              ELSE IF LeqValues(x, y) THEN x ELSE y)
RMax(a, b) ==
    Bind2(a, b, LAMBDA x, y : IF IsNaN(x) \/ IsNaN(y) THEN NaN
                              ELSE IF LeqValues(x, y) THEN y ELSE x)

\* Math.floor(a): the largest integer <= a (\div rounds towards minus infinity).
RFloor(a) == Bind(a, LAMBDA x : IF IsNaN(x) THEN NaN ELSE Num(x.n \div x.d))

----------------------------------------------------------------------------
(* JavaScript values that reach createPolygon: numbers, null, undefined and
   arrays of such values.  Every value is a record of one shape. *)

JNum(r)  == [t |-> "num",   v |-> r,   e |-> <<>>]
JNull    == [t |-> "null",  v |-> NaN, e |-> <<>>]
JUndef   == [t |-> "undef", v |-> NaN, e |-> <<>>]
JArr(es) == [t |-> "arr",   v |-> NaN, e |-> es]

\* Reading a property of null or undefined throws a TypeError.
Throws(v) == v.t \in {"null", "undef"}

\* v[i] (i counted from 0) for a v that is neither null nor undefined.
Index(v, i) ==
    IF v.t = "arr" /\ i < Len(v.e) THEN v.e[i + 1] ELSE JUndef

\* ToNumber(v), as the operand of `*`: undefined is NaN, null is 0, an array
\* goes through its string ([] is 0, [x] is ToNumber(x) for the x modelled
\* here, a longer array is NaN).
RECURSIVE ToNumber(_)
ToNumber(v) ==
    CASE v.t = "num"   -> v.v
      [] v.t = "null"  -> Num(0)
      [] v.t = "undef" -> NaN
      [] OTHER -> IF Len(v.e) = 0 THEN Num(0)
                  ELSE IF Len(v.e) = 1 THEN ToNumber(v.e[1])
                  ELSE NaN

\* coords.length: the element count of an array, undefined otherwise.
JLength(v) == IF v.t = "arr" THEN JNum(Num(Len(v.e))) ELSE JUndef

----------------------------------------------------------------------------
(* The Paper.js scope of initializePaper *)

canvasWidth  == 900
canvasHeight == 600
DefaultTileSize == 300
InitialColumns == 10
InitialRows == 7

\* parseInt(document.getElementById('tileSizeInput').value) || 300, where
\* `input` is what parseInt made of the field's text (NaN for no number).
TileSize(input) ==
    IF IsNaN(input) \/ input.n = 0 THEN DefaultTileSize ELSE input.n

\* Not the code: the larger of the two ratios.
FitScaleMax(scaleX, scaleY) == RMax(scaleX, scaleY)

\* Math.min(scaleX, scaleY)
FitScale(scaleX, scaleY) == RMin(scaleX, scaleY)

\* The scale and the centring offset that drawGrid, createPolygon and
\* updatePolygonPositions each compute, with the same statements.
FitTransform(cols, rows, tileSize) ==
    Bind2(Num(cols * tileSize), Num(rows * tileSize),
      LAMBDA worldWidth, worldHeight :
        Bind(FitScale(RDiv(Num(canvasWidth), worldWidth),
                      RDiv(Num(canvasHeight), worldHeight)),
          LAMBDA scale :
            Bind2(RMul(worldWidth, scale), RMul(worldHeight, scale),
              LAMBDA displayWidth, displayHeight :
                [scale         |-> scale,
                 displayWidth  |-> displayWidth,
                 displayHeight |-> displayHeight,
                 offsetX       |-> RDiv(RSub(Num(canvasWidth), displayWidth), Num(2)),
                 offsetY       |-> RDiv(RSub(Num(canvasHeight), displayHeight), Num(2))])))

\* One entry of the trace of paperFunctions calls a handler makes.
Call(fn, P, tileSize, tr) ==
    [cols |-> P.gridColumns, rows |-> P.gridRows, tileSize |-> tileSize,
     scale |-> tr.scale, fn |-> fn]

\* The drawing order of the active layer, bottom first.
Item(kind, id) == [kind |-> kind, id |-> id]
RemoveItem(layer, it) == SelectSeq(layer, LAMBDA x : x # it)
BringToFront(layer, it) == Append(RemoveItem(layer, it), it)
SendToBack(layer, it) == <<it>> \o RemoveItem(layer, it)

\* screen = offset + world * scale for one element pt of the coordinate list
\* (pt is neither null nor undefined: createPolygon throws on such an element
\* and tracks no path that holds one).
ScreenPoint(tr, pt) ==
    <<RAdd(tr.offsetX, RMul(ToNumber(Index(pt, 0)), tr.scale)),
      RAdd(tr.offsetY, RMul(ToNumber(Index(pt, 1)), tr.scale))>>

\* Not the code: a reprojection that starts from the path's current segments.
ReprojectFromScreen(path) ==
    [j \in 1..Len(path.segments) |->
        JArr(<<JNum(path.segments[j][1]), JNum(path.segments[j][2])>>)]

\* The world coordinates a reprojection starts from: path.originalCoords.
ReprojectSource(path) == path.originalCoords

\* Not the code: a reprojection that also stores the screen coordinates as
\* the path's world coordinates.
ReprojectOverwriting(tr, path) ==
    LET screen == [j \in 1..Len(path.originalCoords) |->
                      ScreenPoint(tr, path.originalCoords[j])]
    IN  [path EXCEPT !.segments = screen,
                     !.originalCoords =
                         [j \in 1..Len(screen) |->
                             JArr(<<JNum(screen[j][1]), JNum(screen[j][2])>>)]]

\* One polygon of updatePolygonPositions: its segments rebuilt from the
\* stored world coordinates, its style kept.
Reproject(tr, path) ==
    LET src == ReprojectSource(path)
    IN  [path EXCEPT !.segments =
            [j \in 1..Len(src) |-> ScreenPoint(tr, src[j])]]

\* paperFunctions.updatePolygonPositions
RECURSIVE FrontAll(_, _, _)
FrontAll(layer, paths, i) ==
    IF i > Len(paths) THEN layer
    ELSE Bind(BringToFront(layer, Item("path", paths[i].id)),
              LAMBDA front : FrontAll(front, paths, i + 1))

UpdatePolygonPositions(P) ==
    Bind2(TileSize(P.tileSizeInput),
          FitTransform(P.gridColumns, P.gridRows, TileSize(P.tileSizeInput)),
      LAMBDA tileSize, tr :
        [P EXCEPT
           !.polygonPaths = [i \in 1..Len(P.polygonPaths) |->
                                Reproject(tr, P.polygonPaths[i])],
           !.layer = FrontAll(P.layer, P.polygonPaths, 1),
           !.calls = Append(@, Call("updatePolygonPositions", P, tileSize, tr))])

\* paperFunctions.clearPolygons: every tracked path leaves the layer.
\* Not the code: clearPolygons forgetting the paths without removing them.
ClearPolygonsForgetting(P) == [P EXCEPT !.polygonPaths = <<>>]

ClearPolygons(P) ==
    [P EXCEPT
       !.layer = SelectSeq(@, LAMBDA x :
                    ~(x.kind = "path" /\
                      \E i \in 1..Len(P.polygonPaths) : P.polygonPaths[i].id = x.id)),
       !.polygonPaths = <<>>]

\* The index of the first element of coords that createPolygon's loop cannot
\* read (coords[j][0] of a null element), 0 when there is none.
FirstUnreadable(coords) ==
    IF \E j \in 1..Len(coords.e) : Throws(coords.e[j])
    THEN CHOOSE j \in 1..Len(coords.e) :
            /\ Throws(coords.e[j])
            /\ \A k \in 1..(j - 1) : ~Throws(coords.e[k])
    ELSE 0

\* The path createPolygon tracks on success.
NewPath(id, coords, tr, r, g, b) ==
    [id |-> id,
     segments |-> [j \in 1..Len(coords.e) |-> ScreenPoint(tr, coords.e[j])],
     originalCoords |-> coords.e,
     fillColor |-> <<RDiv(r, Num(255)), RDiv(g, Num(255)), RDiv(b, Num(255))>>]

\* paperFunctions.createPolygon(coords, r, g, b): [P |-> the scope after the
\* call, ok |-> what it returns].
\*  - line 460 reads coords[0][0] before any path exists: it throws when
\*    coords or coords[0] is null or undefined, and nothing is created;
\*  - line 462 creates the path, which enters the active layer at once;
\*  - the loop of line 467 throws on a null element: the catch returns false
\*    and the path, never pushed to polygonPaths, stays in the layer.
CreatePolygon(P, coords, r, g, b) ==
    Bind2(TileSize(P.tileSizeInput),
          FitTransform(P.gridColumns, P.gridRows, TileSize(P.tileSizeInput)),
      LAMBDA tileSize, tr :
        LET P1  == [P EXCEPT !.calls = Append(@, Call("createPolygon", P, tileSize, tr))]
            id  == P.nextPathId
        IN  IF Throws(coords) \/ Throws(Index(coords, 0))
            THEN [P |-> P1, ok |-> FALSE]
            ELSE IF FirstUnreadable(coords) # 0
            THEN [P |-> [P1 EXCEPT !.layer = Append(@, Item("path", id)),
                                   !.nextPathId = @ + 1],
                  ok |-> FALSE]
            ELSE [P |-> [P1 EXCEPT
                           !.layer = BringToFront(Append(@, Item("path", id)),
                                                  Item("path", id)),
                           !.polygonPaths = Append(@, NewPath(id, coords, tr, r, g, b)),
                           !.nextPathId = @ + 1],
                  ok |-> TRUE])

\* Not the code: a drawGrid that removes nothing before it draws.
IsTrackedGridItemNever(P, x) == FALSE

\* Whether drawGrid removes layer item x before it draws: the lines tracked
\* in gridLines and the tracked background.
IsTrackedGridItem(P, x) ==
    \/ x.kind = "line" /\ \E i \in 1..Len(P.gridLines) : P.gridLines[i].id = x.id
    \/ x.kind = "background" /\ P.gridBackground.present

\* paperFunctions.drawGrid(tileSize)
DrawGrid(P, tileSize) ==
    Bind(FitTransform(P.gridColumns, P.gridRows, tileSize),
      LAMBDA tr :
        Bind2(<<RDiv(tr.displayWidth, Num(P.gridColumns)),
                RDiv(tr.displayHeight, Num(P.gridRows))>>,
              <<RAdd(tr.offsetX, tr.displayWidth),
                RAdd(tr.offsetY, tr.displayHeight)>>,
          LAMBDA visualTile, far :
            LET cleared == SelectSeq(P.layer, LAMBDA x : ~IsTrackedGridItem(P, x))
                withBackground ==
                    SendToBack(Append(cleared, Item("background", 0)),
                               Item("background", 0))
                nv == P.gridColumns + 1
                nh == P.gridRows + 1
                \* new paper.Path.Line((x, offsetY), (x, offsetY + displayHeight))
                vertical(col) ==
                    Bind(RAdd(tr.offsetX, RMul(Num(col), visualTile[1])),
                      LAMBDA x :
                        [id |-> col + 1, from |-> <<x, tr.offsetY>>,
                         to |-> <<x, far[2]>>])
                \* new paper.Path.Line((offsetX, y), (offsetX + displayWidth, y))
                horizontal(row) ==
                    Bind(RAdd(tr.offsetY, RMul(Num(row), visualTile[2])),
                      LAMBDA y :
                        [id |-> nv + row + 1, from |-> <<tr.offsetX, y>>,
                         to |-> <<far[1], y>>])
            IN  [P EXCEPT
                   !.gridLines = [i \in 1..(nv + nh) |->
                                    IF i <= nv THEN vertical(i - 1)
                                    ELSE horizontal(i - nv - 1)],
                   !.gridBackground = [present |-> TRUE,
                                       point |-> <<tr.offsetX, tr.offsetY>>,
                                       size |-> <<tr.displayWidth, tr.displayHeight>>],
                   !.layer = withBackground \o
                             [i \in 1..(nv + nh) |-> Item("line", i)],
                   !.calls = Append(@, Call("drawGrid", P, tileSize, tr))]))

----------------------------------------------------------------------------
(* Text.  A line of a file is a sequence of tokens: the characters that the
   row splitters and parsers tell apart (quote, comma, parentheses, brackets,
   space), decimal numerals, and words (runs of letters).  A token is
   [k |-> kind, w |-> its characters, v |-> its value if it is a numeral]. *)

Sym(c)  == [k |-> "sym",  v |-> NaN, w |-> <<c>>]
Word(w) == [k |-> "word", v |-> NaN,     w |-> w]
\* A decimal numeral whose value is n/d, such as 300 (300/1) or 0.5 (1/2).
Numeral(n, d) == [k |-> "num", v |-> R(n, d), w |-> <<"0">>]

Quote    == Sym("\"")
Comma    == Sym(",")
LParen   == Sym("(")
RParen   == Sym(")")
LBracket == Sym("[")
RBracket == Sym("]")
Space    == Sym(" ")

\* String.prototype.trim, on one line or field
RECURSIVE TrimLeft(_)
TrimLeft(f) == IF Len(f) > 0 /\ f[1] = Space THEN TrimLeft(Tail(f)) ELSE f
RECURSIVE TrimRight(_)
TrimRight(f) ==
    IF Len(f) > 0 /\ f[Len(f)] = Space THEN TrimRight(SubSeq(f, 1, Len(f) - 1)) ELSE f
Trim(f) == TrimRight(TrimLeft(f))

\* Not the code: a splitter for which a quote is a character like any other.
SplitStepQuoteBlind(row, st) ==
    IF row[st.i] = Comma
    THEN [st EXCEPT !.i = @ + 1, !.result = Append(@, st.current), !.current = <<>>]
    ELSE [st EXCEPT !.i = @ + 1, !.current = Append(@, row[st.i])]

\* One character of parseCSVRowJS's loop over the row; st holds its locals.
SplitStep(row, st) ==
    IF row[st.i] = Quote
    THEN [st EXCEPT !.i = @ + 1, !.inQuotes = ~@]
    ELSE IF row[st.i] = Comma /\ ~st.inQuotes
    THEN [st EXCEPT !.i = @ + 1, !.result = Append(@, st.current), !.current = <<>>]
    ELSE [st EXCEPT !.i = @ + 1, !.current = Append(@, row[st.i])]

RECURSIVE SplitLoop(_, _)
SplitLoop(row, st) ==
    IF st.i > Len(row) THEN Append(st.result, st.current)
    ELSE Bind(SplitStep(row, st), LAMBDA next : SplitLoop(row, next))

\* parseCSVRowJS(row), the single-row splitter: the fields of one line.
ParseCSVRowJS(row) ==
    SplitLoop(row, [i |-> 1, result |-> <<>>, current |-> <<>>, inQuotes |-> FALSE])

\* parseCSVRowJS(csvText), the whole-text splitter: the rows of the lines
\* that are not blank, every line and every field trimmed.
ParseCSVText(lines) ==
    LET kept == SelectSeq([i \in 1..Len(lines) |-> Trim(lines[i])],
                          LAMBDA l : Len(l) > 0)
    IN  [i \in 1..Len(kept) |->
            Bind(ParseCSVRowJS(kept[i]),
                 LAMBDA fields : [j \in 1..Len(fields) |-> Trim(fields[j])])]

\* String.prototype.split(','): every comma separates, quotes are characters.
RECURSIVE SplitCommasLoop(_, _)
SplitCommasLoop(row, st) ==
    IF st.i > Len(row) THEN Append(st.result, st.current)
    ELSE Bind(IF row[st.i] = Comma
              THEN [st EXCEPT !.i = @ + 1, !.result = Append(@, st.current),
                              !.current = <<>>]
              ELSE [st EXCEPT !.i = @ + 1, !.current = Append(@, row[st.i])],
              LAMBDA next : SplitCommasLoop(row, next))

SplitCommas(row) ==
    SplitCommasLoop(row, [i |-> 1, result |-> <<>>, current |-> <<>>])

\* csv.trim().split('\n') on the text whose lines are `lines`: blank lines
\* at either end go, the first line loses its leading and the last its
\* trailing spaces; an empty text still splits into one empty line.
RECURSIVE DropBlankHead(_)
DropBlankHead(lines) ==
    IF Len(lines) > 0 /\ Len(Trim(lines[1])) = 0
    THEN DropBlankHead(Tail(lines)) ELSE lines
RECURSIVE DropBlankTail(_)
DropBlankTail(lines) ==
    IF Len(lines) > 0 /\ Len(Trim(lines[Len(lines)])) = 0
    THEN DropBlankTail(SubSeq(lines, 1, Len(lines) - 1)) ELSE lines

TrimAndSplitLines(lines) ==
    Bind(DropBlankTail(DropBlankHead(lines)),
      LAMBDA body :
        IF Len(body) = 0 THEN << <<>> >>
        ELSE [i \in 1..Len(body) |->
                IF i = 1 /\ i = Len(body) THEN Trim(body[i])
                ELSE IF i = 1 THEN TrimLeft(body[i])
                ELSE IF i = Len(body) THEN TrimRight(body[i])
                ELSE body[i]])

\* parseFloat(field): the numeral a text starts with, after leading spaces.
ParseFloat(field) ==
    Bind(TrimLeft(field),
         LAMBDA f : IF Len(f) > 0 /\ f[1].k = "num" THEN f[1].v ELSE NaN)

\* parseInt(field): the integer part of that numeral (digits up to the point).
ParseInt(field) ==
    Bind(ParseFloat(field),
         LAMBDA x : IF IsNaN(x) THEN NaN
                    ELSE IF x.n < 0 THEN Num(-((-x.n) \div x.d))
                    ELSE Num(x.n \div x.d))

\* JSON.parse on a text of numerals, null, brackets, commas and spaces:
\* [ok |-> FALSE] is a SyntaxError.  ParseValue reads one value from token
\* i on and ParseElements the rest of an array after its opening bracket;
\* both return [ok, v, next].
JSONFail == [v |-> JUndef, ok |-> FALSE, next |-> 0]

RECURSIVE SkipSpaces(_, _)
SkipSpaces(toks, i) ==
    IF i <= Len(toks) /\ toks[i] = Space THEN SkipSpaces(toks, i + 1) ELSE i

null == <<"n", "u", "l", "l">>

RECURSIVE ParseValue(_, _), ParseElements(_, _, _)
ParseValue(toks, i) ==
    Bind(SkipSpaces(toks, i),
      LAMBDA j :
        IF j > Len(toks) THEN JSONFail
        ELSE IF toks[j].k = "num"
        THEN [v |-> JNum(toks[j].v), ok |-> TRUE, next |-> j + 1]
        ELSE IF toks[j] = Word(null)
        THEN [v |-> JNull, ok |-> TRUE, next |-> j + 1]
        ELSE IF toks[j] = LBracket
        THEN Bind(SkipSpaces(toks, j + 1),
               LAMBDA k :
                 IF k <= Len(toks) /\ toks[k] = RBracket
                 THEN [v |-> JArr(<<>>), ok |-> TRUE, next |-> k + 1]
                 ELSE ParseElements(toks, k, <<>>))
        ELSE JSONFail)

ParseElements(toks, i, acc) ==
    Bind(ParseValue(toks, i),
      LAMBDA r :
        IF ~r.ok THEN JSONFail
        ELSE Bind2(SkipSpaces(toks, r.next), Append(acc, r.v),
               LAMBDA k, elems :
                 IF k > Len(toks) THEN JSONFail
                 ELSE IF toks[k] = Comma THEN ParseElements(toks, k + 1, elems)
                 ELSE IF toks[k] = RBracket
                 THEN [v |-> JArr(elems), ok |-> TRUE, next |-> k + 1]
                 ELSE JSONFail))

JSONParse(toks) ==
    Bind(ParseValue(toks, 1),
      LAMBDA r : IF r.ok /\ SkipSpaces(toks, r.next) > Len(toks)
                 THEN [v |-> r.v, ok |-> TRUE]
                 ELSE [v |-> JUndef, ok |-> FALSE])

----------------------------------------------------------------------------
(* The CSV loaders *)

Letters == <<"a", "b", "c", "d", "e", "f", "g", "h", "i", "j", "k", "l", "m",
             "n", "o", "p", "q", "r", "s", "t", "u", "v", "w", "x", "y", "z">>
Capitals == <<"A", "B", "C", "D", "E", "F", "G", "H", "I", "J", "K", "L", "M",
              "N", "O", "P", "Q", "R", "S", "T", "U", "V", "W", "X", "Y", "Z">>

\* String.prototype.toLowerCase, on a sequence of characters
ToLowerCase(chars) ==
    [i \in 1..Len(chars) |->
        IF \E j \in 1..26 : Capitals[j] = chars[i]
        THEN Letters[CHOOSE j \in 1..26 : Capitals[j] = chars[i]]
        ELSE chars[i]]

\* The characters of a header cell
RECURSIVE CellText(_)
CellText(cell) == IF Len(cell) = 0 THEN <<>> ELSE cell[1].w \o CellText(Tail(cell))

\* String.prototype.includes
Includes(chars, needle) ==
    \E i \in 1..(Len(chars) - Len(needle) + 1) :
        SubSeq(chars, i, i + Len(needle) - 1) = needle

coordinates    == <<"c", "o", "o", "r", "d", "i", "n", "a", "t", "e", "s">>
polygon_coords == <<"p", "o", "l", "y", "g", "o", "n", "_", "c", "o", "o", "r", "d", "s">>
color_r        == <<"c", "o", "l", "o", "r", "_", "r">>
color_g        == <<"c", "o", "l", "o", "r", "_", "g">>
color_b        == <<"c", "o", "l", "o", "r", "_", "b">>

\* The index the header loop leaves for a column: the last cell whose
\* lower-cased text includes one of the needles, 0 when there is none (the
\* code counts from 0 and leaves -1).
ColumnIndex(header, needles) ==
    LET hits == {i \in 1..Len(header) :
                    \E n \in needles : Includes(ToLowerCase(CellText(header[i])), n)}
    IN  IF hits = {} THEN 0 ELSE CHOOSE i \in hits : \A j \in hits : j <= i

ColumnIndices(header) ==
    [r |-> ColumnIndex(header, {color_r}),
     b |-> ColumnIndex(header, {color_b}),
     g |-> ColumnIndex(header, {color_g}),
     coords |-> ColumnIndex(header, {coordinates, polygon_coords})]

\* parseFloat(row[index] || 0): 0 for a column that was not found and for an
\* empty field.
ColorChannel(row, index) ==
    IF index = 0 \/ Len(row[index]) = 0 THEN Num(0) ELSE ParseFloat(row[index])

\* "Convert 0-1 range to 0-255 if needed"
ScaleUnitRange(c) ==
    IF RLeq(c[1], Num(1)) /\ RLeq(c[2], Num(1)) /\ RLeq(c[3], Num(1))
    THEN <<RFloor(RMul(c[1], Num(255))), RFloor(RMul(c[2], Num(255))),
           RFloor(RMul(c[3], Num(255)))>>
    ELSE c

\* "If all colors are 0 (black/transparent), use white for visibility"
WhiteIfBlack(c) ==
    IF c[1] = Num(0) /\ c[2] = Num(0) /\ c[3] = Num(0)
    THEN <<Num(255), Num(255), Num(255)>>
    ELSE c

\* The channels the schema-driven loaders hand to createPolygon.
NormalizeColor(c) == Bind(ScaleUnitRange(c), WhiteIfBlack)

\* parseInt(field) || 0, the channels of the fixed 4-column loader.
IntChannel(field) ==
    Bind(ParseInt(field), LAMBDA x : IF IsNaN(x) THEN Num(0) ELSE x)

\* coordsStr.replace(/\(/g, '[').replace(/\)/g, ']')
ParensToBrackets(f) ==
    [i \in 1..Len(f) |->
        IF f[i] = LParen THEN LBracket ELSE IF f[i] = RParen THEN RBracket ELSE f[i]]

\* coordsStr.replace(/"/g, '')
WithoutQuotes(f) == SelectSeq(f, LAMBDA t : t # Quote)

\* What the loop of a schema-driven loader does with one data line; L holds
\* the scope and the two counters.
\*  - fewer fields than the header: skipped (a warning, no counter);
\*  - JSON.parse throws, or coords is null (coords.length throws): errorCount;
\*  - an array of fewer than 3 elements: skipped (a warning, no counter);
\*  - otherwise createPolygon: polygonCount if it returns true, else errorCount.
ProcessRow(L, header, index, line) ==
    Bind(ParseCSVRowJS(line),
      LAMBDA row :
        IF Len(row) < Len(header) THEN L
        ELSE Bind(JSONParse(ParensToBrackets(Trim(WithoutQuotes(row[index.coords])))),
          LAMBDA parsed :
            IF ~parsed.ok \/ Throws(parsed.v)
            THEN [L EXCEPT !.errorCount = @ + 1]
            ELSE IF parsed.v.t = "arr" /\ Len(parsed.v.e) < 3 THEN L
            ELSE Bind(NormalizeColor(<<ColorChannel(row, index.r),
                                       ColorChannel(row, index.g),
                                       ColorChannel(row, index.b)>>),
              LAMBDA c :
                Bind(CreatePolygon(L.P, parsed.v, c[1], c[2], c[3]),
                  LAMBDA made :
                    IF made.ok
                    THEN [L EXCEPT !.P = made.P, !.polygonCount = @ + 1]
                    ELSE [L EXCEPT !.P = made.P, !.errorCount = @ + 1]))))

\* for (i = from; i < lines.length && i < below; i++), i counted from 0
RECURSIVE ProcessRows(_, _, _, _, _, _)
ProcessRows(L, header, index, lines, i, below) ==
    IF ~(i < Len(lines) /\ i < below) THEN L
    ELSE Bind(ProcessRow(L, header, index, lines[i + 1]),
              LAMBDA next : ProcessRows(next, header, index, lines, i + 1, below))

Report(variant, outcome, L) ==
    [errorCount |-> L.errorCount, polygonCount |-> L.polygonCount,
     variant |-> variant, outcome |-> outcome]

NoReport == [errorCount |-> 0, polygonCount |-> 0, variant |-> "none", outcome |-> "none"]

\* The body of reader.onload of a schema-driven loader, from the split into
\* lines on: the header, the first five data rows, the remaining rows.
LoadSchemaDriven(P, variant, text) ==
    Bind2(TrimAndSplitLines(text), [P |-> P, errorCount |-> 0, polygonCount |-> 0],
      LAMBDA lines, L0 :
        IF Len(lines) < 2 THEN [P |-> P, report |-> Report(variant, "notEnoughLines", L0)]
        ELSE Bind2(SplitCommas(lines[1]), ColumnIndices(SplitCommas(lines[1])),
          LAMBDA header, index :
            IF index.coords = 0
            THEN [P |-> P, report |-> Report(variant, "noCoordinatesColumn", L0)]
            ELSE Bind(ProcessRows(L0, header, index, lines, 1, 6),
              LAMBDA L1 :
                Bind(ProcessRows(L1, header, index, lines, 6, Len(lines)),
                  LAMBDA L2 : [P |-> L2.P, report |-> Report(variant, "loaded", L2)]))))

\* Not the code: an append loader that clears first.
LoadCSVAppendClearing(P, text) == LoadSchemaDriven(ClearPolygons(P), "append", text)

\* reader.onload of the loadCSV of line 635: "Don't clear existing polygons".
LoadCSVAppendOnLoad(P, text) == LoadSchemaDriven(P, "append", text)

\* Not the code: a replace loader that does not clear.
LoadCSVReplaceKeeping(P, text) == LoadSchemaDriven(P, "replace", text)

\* reader.onload of the loadCSV of line 14: clearPolygons() comes first.
LoadCSVReplaceOnLoad(P, text) == LoadSchemaDriven(ClearPolygons(P), "replace", text)

\* The coordinate pairs the fixed 4-column loader reads from polygonStr:
\* parentheses removed, split at the commas, taken two by two, a pair kept
\* when both of its numbers parse.
FlatPairs(polygonStr) ==
    Bind(SplitCommas(SelectSeq(polygonStr, LAMBDA t : t # LParen /\ t # RParen)),
      LAMBDA coordPairs :
        LET pair(k) == <<ParseFloat(Trim(coordPairs[2 * k - 1])),
                         ParseFloat(Trim(coordPairs[2 * k]))>>
            kept == SelectSeq([k \in 1..(Len(coordPairs) \div 2) |-> pair(k)],
                              LAMBDA xy : ~IsNaN(xy[1]) /\ ~IsNaN(xy[2]))
        IN  [k \in 1..Len(kept) |-> JArr(<<JNum(kept[k][1]), JNum(kept[k][2])>>)])

\* One row of the fixed 4-column loader.  Its only counter is polygonsLoaded;
\* errorCount counts the rows its catch block logs.
ProcessFixedRow(L, row) ==
    IF Len(row) < 4 THEN L
    ELSE Bind(FlatPairs(row[1]),
      LAMBDA coords :
        IF Len(coords) < 3 THEN L
        ELSE Bind(CreatePolygon(L.P, JArr(coords), IntChannel(row[2]),
                                IntChannel(row[3]), IntChannel(row[4])),
          LAMBDA made :
            IF made.ok
            THEN [L EXCEPT !.P = made.P, !.polygonCount = @ + 1]
            ELSE [L EXCEPT !.P = made.P]))

RECURSIVE ProcessFixedRows(_, _, _)
ProcessFixedRows(L, rows, i) ==
    IF i > Len(rows) THEN L
    ELSE Bind(ProcessFixedRow(L, rows[i]),
              LAMBDA next : ProcessFixedRows(next, rows, i + 1))

\* reader.onload of the loadCSV of line 267.
LoadCSVFixedOnLoad(P, text) ==
    Bind(ProcessFixedRows([P |-> P, errorCount |-> 0, polygonCount |-> 0],
                          ParseCSVText(text), 1),
         LAMBDA L : [P |-> L.P, report |-> Report("fixed", "loaded", L)])

----------------------------------------------------------------------------
(* State *)

VARIABLES
    gridColumns,     \* var gridColumns
    gridRows,        \* var gridRows
    gridLines,       \* var gridLines: the grid lines drawn, in creation order
    gridBackground,  \* var gridBackground: the grid rectangle (present = not null)
    polygonPaths,    \* var polygonPaths: the tracked polygon paths, in load order
    layer,           \* the active layer's children, bottom first
    nextPathId,      \* identity of the next paper.Path that createPolygon makes
    tileSizeInput,   \* parseInt of the text of the tileSizeInput field
    zoom,            \* paper.view.zoom
    center,          \* paper.view.center
    pending,         \* the FileReader reads in flight: [variant, file]
    lastOp           \* the handler or reader callback that ran last, the
                     \* paperFunctions calls it made, and for a reader
                     \* callback the file read and what the load logged

scope == <<gridColumns, gridRows, gridLines, gridBackground, polygonPaths,
           layer, nextPathId, tileSizeInput>>
view == <<zoom, center>>
vars == <<scope, view, pending, lastOp>>

\* The scope as a handler finds it; calls collects what the handler calls.
Cur ==
    [gridColumns |-> gridColumns, gridRows |-> gridRows,
     layer |-> layer, tileSizeInput |-> tileSizeInput,
     polygonPaths |-> polygonPaths, calls |-> <<>>,
     nextPathId |-> nextPathId, gridLines |-> gridLines,
     gridBackground |-> gridBackground]

\* No file: what lastOp holds for a handler that processes none.
NoFile == [rows |-> <<>>, header |-> "none", style |-> "none"]

\* The scope as a handler leaves it.
Commit(op, P, report, file) ==
    /\ gridColumns' = P.gridColumns
    /\ gridRows' = P.gridRows
    /\ gridLines' = P.gridLines
    /\ gridBackground' = P.gridBackground
    /\ polygonPaths' = P.polygonPaths
    /\ layer' = P.layer
    /\ nextPathId' = P.nextPathId
    /\ tileSizeInput' = P.tileSizeInput
    /\ lastOp' = [calls |-> P.calls, report |-> report, op |-> op, file |-> file]

\* initializePaper: the scope's variables, the instruction text, drawGrid(300).
InitialScope ==
    DrawGrid([gridColumns |-> InitialColumns, gridRows |-> InitialRows,
              layer |-> <<Item("text", 0)>>,
              tileSizeInput |-> Num(DefaultTileSize),
              polygonPaths |-> <<>>,
              calls |-> <<>>,
              nextPathId |-> 1,
              gridLines |-> <<>>,
              gridBackground |-> [present |-> FALSE,
                                  point |-> <<Num(0), Num(0)>>,
                                  size |-> <<Num(0), Num(0)>>]],
             DefaultTileSize)

\* paper.view.center = (view.size.width / 2, view.size.height / 2), for a view
\* of the size of the canvas (canvasWidth x canvasHeight); paper.view.zoom = 1.
InitialCenter == <<R(canvasWidth, 2), R(canvasHeight, 2)>>

\* The editor as initializePaper leaves it.
InitialEditor ==
    /\ gridColumns = InitialScope.gridColumns
    /\ gridRows = InitialScope.gridRows
    /\ gridLines = InitialScope.gridLines
    /\ gridBackground = InitialScope.gridBackground
    /\ polygonPaths = InitialScope.polygonPaths
    /\ layer = InitialScope.layer
    /\ nextPathId = InitialScope.nextPathId
    /\ tileSizeInput = InitialScope.tileSizeInput
    /\ zoom = [d |-> 0, e |-> 0, u |-> 0]   \* 1, as the view handlers write zoom factors
    /\ center = InitialCenter

Init ==
    /\ InitialEditor
    /\ pending = <<>>
    /\ lastOp = [calls |-> InitialScope.calls, report |-> NoReport,
                 op |-> "initializePaper", file |-> NoFile]

----------------------------------------------------------------------------
(* Grid handlers *)

\* Not the code: the two calls in the other order.
ReprojectThenRedraw(P) ==
    Bind(UpdatePolygonPositions(P), LAMBDA Q : DrawGrid(Q, TileSize(Q.tileSizeInput)))

\* The two calls that end addColumn, removeColumn, addRow and removeRow:
\* this.drawGrid(tileSize); this.updatePolygonPositions();
RedrawAndReproject(P) ==
    Bind(DrawGrid(P, TileSize(P.tileSizeInput)), UpdatePolygonPositions)

\* paperFunctions.addColumn
AddColumnBody(P) == RedrawAndReproject([P EXCEPT !.gridColumns = @ + 1])

\* Not the code: removeColumn without its guard.
RemoveColumnUnguarded(P) == RedrawAndReproject([P EXCEPT !.gridColumns = @ - 1])

\* paperFunctions.removeColumn
RemoveColumnBody(P) ==
    IF P.gridColumns > 1
    THEN RedrawAndReproject([P EXCEPT !.gridColumns = @ - 1])
    ELSE P

\* paperFunctions.addRow
AddRowBody(P) == RedrawAndReproject([P EXCEPT !.gridRows = @ + 1])

\* paperFunctions.removeRow
RemoveRowBody(P) ==
    IF P.gridRows > 1
    THEN RedrawAndReproject([P EXCEPT !.gridRows = @ - 1])
    ELSE P

\* updateGrid(): drawGrid with the tile size read from the field.
UpdateGridBody(P) == DrawGrid(P, TileSize(P.tileSizeInput))

AddColumn(maxColumns) ==
    /\ gridColumns < maxColumns
    /\ \E P \in {AddColumnBody(Cur)} : Commit("addColumn", P, NoReport, NoFile)
    /\ UNCHANGED <<view, pending>>

RemoveColumn(minColumns) ==
    /\ gridColumns >= minColumns
    /\ \E P \in {RemoveColumnBody(Cur)} : Commit("removeColumn", P, NoReport, NoFile)
    /\ UNCHANGED <<view, pending>>

AddRow(maxRows) ==
    /\ gridRows < maxRows
    /\ \E P \in {AddRowBody(Cur)} : Commit("addRow", P, NoReport, NoFile)
    /\ UNCHANGED <<view, pending>>

RemoveRow(minRows) ==
    /\ gridRows >= minRows
    /\ \E P \in {RemoveRowBody(Cur)} : Commit("removeRow", P, NoReport, NoFile)
    /\ UNCHANGED <<view, pending>>

\* The tile-size field is edited to a text that parseInt reads as v, and its
\* handler updateGrid runs.
UpdateGrid(inputs) ==
    /\ \E v \in inputs :
          \E P \in {UpdateGridBody([Cur EXCEPT !.tileSizeInput = v])} :
              Commit("updateGrid", P, NoReport, NoFile)
    /\ UNCHANGED <<view, pending>>

----------------------------------------------------------------------------
(* View handlers *)

\* Natural numbers of any size, as their digits in base 10000, lowest first:
\* the zoom factor after n wheel steps is a fraction of n-th powers, which the
\* program holds in a double and the model holds exactly.
RECURSIVE BigOf(_)
BigOf(n) == IF n < 10000 THEN <<n>> ELSE <<n % 10000>> \o BigOf(n \div 10000)

RECURSIVE BigTimesFrom(_, _, _, _)
BigTimesFrom(x, k, i, carry) ==
    IF i > Len(x)
    THEN IF carry = 0 THEN <<>> ELSE BigOf(carry)
    ELSE Bind(x[i] * k + carry,
           LAMBDA t : <<t % 10000>> \o BigTimesFrom(x, k, i + 1, t \div 10000))

\* x * k, for a factor k below 200000
BigTimes(x, k) == BigTimesFrom(x, k, 1, 0)

\* x * k^n, for a base k below 22, four factors at a time
RECURSIVE BigPower(_, _, _)
BigPower(x, k, n) ==
    IF n <= 0 THEN x
    ELSE IF n < 4 THEN Bind(BigTimes(x, k), LAMBDA y : BigPower(y, k, n - 1))
    ELSE Bind(BigTimes(x, k * k * k * k), LAMBDA y : BigPower(y, k, n - 4))

RECURSIVE BigLeqFrom(_, _, _)
BigLeqFrom(x, y, i) ==
    IF i = 0 THEN TRUE
    ELSE IF x[i] # y[i] THEN x[i] < y[i]
    ELSE BigLeqFrom(x, y, i - 1)

BigLeq(x, y) == IF Len(x) # Len(y) THEN Len(x) < Len(y) ELSE BigLeqFrom(x, y, Len(x))
BigLt(x, y) == ~BigLeq(y, x)

\* A zoom factor is 21^u * 19^d * 20^e for integers u, d, e: 1 is all zeros,
\* a zoom-in step multiplies by 21/20 and a zoom-out step by 19/20.  The three
\* bases share no prime factor, so each factor has one such writing and two
\* factors are equal when their exponents are.
ZoomValue(u, d, e) == [d |-> d, e |-> e, u |-> u]
ZoomTimes(a, b) == ZoomValue(a.u + b.u, a.d + b.d, a.e + b.e)
ZoomOver(a, b) == ZoomValue(a.u - b.u, a.d - b.d, a.e - b.e)
ZoomProduct(u, d, e) ==
    Bind(BigPower(<<1>>, 21, u),
      LAMBDA x : Bind(BigPower(x, 19, d), LAMBDA y : BigPower(y, 20, e)))
ZoomNumerator(z) == ZoomProduct(z.u, z.d, z.e)
ZoomDenominator(z) == ZoomProduct(-z.u, -z.d, -z.e)
ZoomLeq(a, b) ==
    Bind(ZoomOver(a, b),
      LAMBDA q : Bind2(ZoomNumerator(q), ZoomDenominator(q), LAMBDA x, y : BigLeq(x, y)))
ZoomMin(a, b) == IF ZoomLeq(a, b) THEN a ELSE b
ZoomMax(a, b) == IF ZoomLeq(a, b) THEN b ELSE a

RECURSIVE Power(_, _)
Power(k, n) == IF n <= 0 THEN 1 ELSE k * Power(k, n - 1)

\* The fraction a zoom factor of small exponents is.
ZoomFraction(z) ==
    R(Power(21, z.u) * Power(19, z.d) * Power(20, z.e),
      Power(21, -z.u) * Power(19, -z.d) * Power(20, -z.e))

One == ZoomValue(0, 0, 0)
ZoomIn  == ZoomValue(1, 0, -1)   \* 1.05
ZoomOut == ZoomValue(0, 1, -1)   \* 0.95
MinZoom == ZoomValue(0, 0, -1)   \* 0.05
MaxZoom == ZoomValue(0, 0, 1)    \* 20

\* newZoom used as computed, without the clamp
ClampZoomNone(z) == z

\* Math.max(0.05, Math.min(20, newZoom))
ClampZoom(z) == ZoomMax(MinZoom, ZoomMin(MaxZoom, z))

\* newCenter = mousePosition - (mousePosition - viewCenter) * beta; a wheel
\* event over the centre itself subtracts a zero offset, whatever beta is.
ZoomAbout(mousePosition, viewCenter, oldZoom, newZoom) ==
    IF mousePosition = viewCenter
    THEN viewCenter
    ELSE Bind(ZoomFraction(ZoomOver(oldZoom, newZoom)),
           LAMBDA beta :
             <<RSub(mousePosition[1],
                    RMul(RSub(mousePosition[1], viewCenter[1]), beta)),
               RSub(mousePosition[2],
                    RMul(RSub(mousePosition[2], viewCenter[2]), beta))>>)

\* paper.view.onMouseWheel, for a wheel event of sign `delta` over the
\* project-space point mousePosition: [zoom, center] as it leaves them.
MouseWheelBody(oldZoom, viewCenter, delta, mousePosition) ==
    Bind(ClampZoom(ZoomTimes(oldZoom, IF delta < 0 THEN ZoomIn ELSE ZoomOut)),
      LAMBDA newZoom :
        [zoom |-> newZoom,
         center |-> ZoomAbout(mousePosition, viewCenter, oldZoom, newZoom)])

\* paper.view.onMouseDrag: center.subtract(event.delta)
MouseDragBody(viewCenter, delta) ==
    <<RSub(viewCenter[1], delta[1]), RSub(viewCenter[2], delta[2])>>

\* The wheel turns while the zoom's denominator is below maxDenominator (a
\* bound of the exploration on the number of wheel steps away from 1).
OnMouseWheel(deltas, points, maxDenominator) ==
    /\ BigLt(ZoomDenominator(zoom), maxDenominator)
    /\ \E delta \in deltas, mousePosition \in points :
          \E v \in {MouseWheelBody(zoom, center, delta, mousePosition)} :
              /\ zoom' = v.zoom
              /\ center' = v.center
    /\ lastOp' = [calls |-> <<>>, report |-> NoReport, op |-> "onMouseWheel", file |-> NoFile]
    /\ UNCHANGED <<scope, pending>>

\* The mouse drags while the centre stays within maxPan of where it started (a
\* bound of the exploration).
OnMouseDrag(deltas, maxPan) ==
    /\ \E delta \in deltas :
          \E c \in {MouseDragBody(center, delta)} :
              /\ RLeq(RSub(c[1], InitialCenter[1]), Num(maxPan))
              /\ RLeq(RSub(InitialCenter[1], c[1]), Num(maxPan))
              /\ RLeq(RSub(c[2], InitialCenter[2]), Num(maxPan))
              /\ RLeq(RSub(InitialCenter[2], c[2]), Num(maxPan))
              /\ center' = c
    /\ lastOp' = [calls |-> <<>>, report |-> NoReport, op |-> "onMouseDrag", file |-> NoFile]
    /\ UNCHANGED <<scope, zoom, pending>>

----------------------------------------------------------------------------
(* Files.  A file is [header, style, rows]; a row is [shape, color], color
   being the texts of its three colour fields.  FileText gives the lines the
   FileReader delivers for it. *)

RECURSIVE Join(_, _)
Join(parts, sep) ==
    IF Len(parts) = 0 THEN <<>>
    ELSE IF Len(parts) = 1 THEN parts[1]
    ELSE parts[1] \o sep \o Join(Tail(parts), sep)

\* "(x, y)"
Pair(x, y) == <<LParen, Numeral(x, 1), Comma, Space, Numeral(y, 1), RParen>>

abc == <<"a", "b", "c">>

\* The coordinate list of a row, without its enclosing brackets and quotes.
ShapeText(shape) ==
    CASE shape = "triangle" ->
            Join(<<Pair(0, 0), Pair(300, 0), Pair(300, 300)>>, <<Comma, Space>>)
      [] shape = "quad" ->
            Join(<<Pair(0, 0), Pair(600, 0), Pair(600, 300), Pair(0, 300)>>,
                 <<Comma, Space>>)
      [] shape = "garbage" ->      \* "(0, 0), (abc, 0), (300, 300)"
            Join(<<Pair(0, 0), <<LParen, Word(abc), Comma, Space, Numeral(0, 1), RParen>>,
                   Pair(300, 300)>>, <<Comma, Space>>)
      [] shape = "unclosed" ->     \* "(0, 0), (300, 0), (300, 300"
            Join(<<Pair(0, 0), Pair(300, 0),
                   <<LParen, Numeral(300, 1), Comma, Space, Numeral(300, 1)>> >>,
                 <<Comma, Space>>)
      [] shape = "segment" ->      \* two vertices
            Join(<<Pair(0, 0), Pair(300, 0)>>, <<Comma, Space>>)
      [] shape = "hole" ->         \* "(0, 0), null, (300, 300)"
            Join(<<Pair(0, 0), <<Word(null)>>, Pair(300, 300)>>, <<Comma, Space>>)
      [] shape = "numbers" ->      \* "1, 2, 3"
            Join(<< <<Numeral(1, 1)>>, <<Numeral(2, 1)>>, <<Numeral(3, 1)>> >>,
                 <<Comma, Space>>)

\* The line of a data row.  Style "json" writes the coordinate field as the
\* schema-driven loaders read it, "[(0, 0), (300, 0), (300, 300)]" in quotes;
\* style "flat" as the fixed loader reads it, "(0, 0), (300, 0), (300, 300)"
\* in quotes.  A row of shape "short" has two fields only.  A row given as
\* [text |-> its characters] is written as it stands.
DataLine(row, style) ==
    IF "text" \in DOMAIN row THEN row.text
    ELSE IF row.shape = "short" THEN <<Numeral(7, 1), Comma, Numeral(8, 1)>>
    ELSE (IF style = "json"
          THEN <<Quote, LBracket>> \o ShapeText(row.shape) \o <<RBracket, Quote>>
          ELSE <<Quote>> \o ShapeText(row.shape) \o <<Quote>>)
         \o <<Comma>> \o row.color[1] \o <<Comma>> \o row.color[2]
         \o <<Comma>> \o row.color[3]

HeaderLine(header) ==
    CASE header = "standard" ->
            <<Word(coordinates), Comma, Word(color_r), Comma, Word(color_g),
              Comma, Word(color_b)>>
      [] header = "capitals" ->
            <<Word(<<"C">> \o Tail(coordinates)), Comma, Word(<<"C">> \o Tail(color_r)),
              Comma, Word(<<"C">> \o Tail(color_g)), Comma, Word(<<"C">> \o Tail(color_b))>>
      [] header = "nocoords" ->
            <<Word(<<"i", "d">>), Comma, Word(color_r), Comma, Word(color_g),
              Comma, Word(color_b)>>

FileText(file) ==
    (IF file.header = "none" THEN <<>> ELSE <<HeaderLine(file.header)>>)
    \o [i \in 1..Len(file.rows) |-> DataLine(file.rows[i], file.style)]

File(header, style, rows) == [rows |-> rows, header |-> header, style |-> style]
Row(shape, color) == [shape |-> shape, color |-> color]
RawRow(text) == [text |-> text]
Red == << <<Numeral(255, 1)>>, <<Numeral(0, 1)>>, <<Numeral(0, 1)>> >>

\* The entry points a file is written for: the two schema-driven loadCSV
\* (lines 14 and 635) and the fixed 4-column loadCSV (line 267).
SchemaDriven == {"replace", "append"}
AppendOnly == {"append"}
FixedLayout == {"fixed"}

\* The signs of event.delta: negative zooms in.
WheelDeltas == {-1, 1}

----------------------------------------------------------------------------
(* Loading: the change handler of the file input starts a FileReader, which
   later calls reader.onload or reader.onerror. *)

\* loadCSV(event) with a file selected: reader.readAsText(file).
LoadCSV(variants, files, maxPending, maxPathId) ==
    /\ Len(pending) < maxPending
    /\ nextPathId <= maxPathId
    /\ \E variant \in variants, file \in files :
          pending' = Append(pending, [variant |-> variant, file |-> file])
    /\ lastOp' = [calls |-> <<>>, report |-> NoReport, op |-> "loadCSV", file |-> NoFile]
    /\ UNCHANGED <<scope, view>>

OnLoadBody(P, variant, text) ==
    CASE variant = "replace" -> LoadCSVReplaceOnLoad(P, text)
      [] variant = "append"  -> LoadCSVAppendOnLoad(P, text)
      [] variant = "fixed"   -> LoadCSVFixedOnLoad(P, text)

WithoutRead(i) == [j \in 1..(Len(pending) - 1) |-> IF j < i THEN pending[j] ELSE pending[j + 1]]

\* reader.onload of one of the reads in flight.
ReaderOnLoad ==
    \E i \in 1..Len(pending) :
        /\ \E done \in {OnLoadBody(Cur, pending[i].variant, FileText(pending[i].file))} :
              Commit("reader.onload", done.P, done.report, pending[i].file)
        /\ pending' = WithoutRead(i)
        /\ UNCHANGED view

\* One of the reads in flight fails.  reader.onerror of the schema-driven
\* loaders writes to the debug log; the fixed loader sets no onerror.
ReaderOnError ==
    \E i \in 1..Len(pending) :
        /\ lastOp' = [calls |-> <<>>, report |-> [NoReport EXCEPT !.variant = pending[i].variant,
                                                  !.outcome = "readError"],
                      op |-> "reader.onerror",
                      file |-> pending[i].file]
        /\ pending' = WithoutRead(i)
        /\ UNCHANGED <<scope, view>>

----------------------------------------------------------------------------
(* The grid editor: the four grid handlers and the tile-size field, over
   every grid from 1 x 1 to MaxColumns x MaxRows. *)

MaxColumns == 11
MaxRows == 8

\* What parseInt can make of the tile-size field: no number (NaN), 0 (both
\* fall back to 300), and numbers of either sign.
TileInputs == {NaN, Num(0), Num(150), Num(300), Num(-150)}

Next ==
    \/ AddColumn(MaxColumns)
    \/ RemoveColumn(1)
    \/ AddRow(MaxRows)
    \/ RemoveRow(1)
    \/ UpdateGrid(TileInputs)

Spec == Init /\ [][Next]_vars

----------------------------------------------------------------------------
(* The editor with polygons: loads in replace and in append mode of a good
   file and of a file without a coordinates column, reads that fail, column
   and row edits within a window around the initial grid, the tile size
   changed from 300 to 150. *)

SyncMaxColumns == 11
SyncMaxRows == 8
SyncMaxPathId == 2
SyncMaxPending == 1
SyncTileInputs == {Num(150)}
SyncFiles ==
    {File("standard", "json", <<Row("triangle", Red)>>),
     File("nocoords", "json", <<Row("triangle", Red)>>)}

NextSync ==
    \/ AddColumn(SyncMaxColumns)
    \/ RemoveColumn(InitialColumns + 1)
    \/ AddRow(SyncMaxRows)
    \/ RemoveRow(InitialRows + 1)
    \/ UpdateGrid(SyncTileInputs)
    \/ LoadCSV(SchemaDriven, SyncFiles, SyncMaxPending, SyncMaxPathId)
    \/ ReaderOnLoad
    \/ ReaderOnError

SpecSync == Init /\ [][NextSync]_vars

----------------------------------------------------------------------------
(* The editor with its view: one load in append mode, column and row edits,
   tile sizes, the mouse wheel and the mouse drag. *)

ViewMaxColumns == 11
ViewMaxRows == 8
ViewMaxPathId == 1
ViewMaxPending == 1
ViewMaxDenominator == 399   \* the wheel turns while the zoom is 1 or one step from it
ViewMaxPan == 10
ViewTileInputs == {Num(150)}
ViewFiles == {File("standard", "json", <<Row("quad", Red)>>)}
ViewPoints == {<<Num(0), Num(0)>>}
ViewDrags == {<<Num(10), Num(0)>>}

ViewFinest == BigOf(ViewMaxDenominator)

NextView ==
    \/ AddColumn(ViewMaxColumns)
    \/ RemoveColumn(InitialColumns + 1)
    \/ AddRow(ViewMaxRows)
    \/ RemoveRow(InitialRows + 1)
    \/ UpdateGrid(ViewTileInputs)
    \/ LoadCSV(AppendOnly, ViewFiles, ViewMaxPending, ViewMaxPathId)
    \/ ReaderOnLoad
    \/ ReaderOnError
    \/ OnMouseWheel(WheelDeltas, ViewPoints, ViewFinest)
    \/ OnMouseDrag(ViewDrags, ViewMaxPan)

SpecView == Init /\ [][NextView]_vars

----------------------------------------------------------------------------
(* One load of a batch: files of BatchMinRows to BatchMaxRows data rows, all
   triangles but at most one row, at any position, of one of the BadShapes.  The
   schema-driven loaders read the files written for them (a header, JSON
   coordinate lists), the fixed loader those written for it (no header, flat
   coordinate lists). *)

BatchMinRows == 2
BatchMaxRows == 7
BatchMaxPathId == 1
BatchMaxPending == 1
BadShapes == {"garbage", "unclosed", "short", "segment"}

BatchRows(n, p, bad) ==
    [i \in 1..n |-> IF i = p THEN Row(bad, Red) ELSE Row("triangle", Red)]

BatchFiles(header, style) ==
    {File(header, style, BatchRows(n, p, bad)) :
        n \in BatchMinRows..BatchMaxRows, p \in 1..BatchMaxRows, bad \in BadShapes}

BatchSchemaFiles == BatchFiles("standard", "json")
BatchFixedFiles == BatchFiles("none", "flat")

NextBatch ==
    \/ LoadCSV(SchemaDriven, BatchSchemaFiles,
               BatchMaxPending, BatchMaxPathId)
    \/ LoadCSV(FixedLayout, BatchFixedFiles,
               BatchMaxPending, BatchMaxPathId)
    \/ ReaderOnLoad
    \/ ReaderOnError

SpecBatch == Init /\ [][NextBatch]_vars

----------------------------------------------------------------------------
(* One load of one row: a triangle whose three colour fields are decimal
   numerals, through each of the three loaders. *)

ColorMaxPathId == 1
ColorMaxPending == 1
ChannelInputs == {R(0, 1), R(1, 2), R(1, 1), R(200, 1)}
ColorInputs ==
    {<<r, g, b>> : r \in ChannelInputs, g \in ChannelInputs, b \in ChannelInputs}
    \cup {<<R(10, 1), R(200, 1), R(30, 1)>>, <<R(1, 5), R(2, 5), R(3, 5)>>}
    \cup {<<R(300, 1), R(0, 1), R(0, 1)>>, <<R(-5, 1), R(-5, 1), R(-5, 1)>>,
          <<R(-5, 1), R(200, 1), R(1, 2)>>}

ColorFields(c) == [k \in 1..3 |-> <<Numeral(c[k].n, c[k].d)>>]

ColorFiles(header, style) ==
    {File(header, style, <<Row("triangle", ColorFields(c))>>) : c \in ColorInputs}

ColorSchemaFiles == ColorFiles("capitals", "json")
ColorFixedFiles == ColorFiles("none", "flat")

NextColor ==
    \/ LoadCSV(SchemaDriven, ColorSchemaFiles,
               ColorMaxPending, ColorMaxPathId)
    \/ LoadCSV(FixedLayout, ColorFixedFiles,
               ColorMaxPending, ColorMaxPathId)
    \/ ReaderOnLoad
    \/ ReaderOnError

SpecColor == Init /\ [][NextColor]_vars

----------------------------------------------------------------------------
(* The mouse wheel alone, turning over the centre of the view, as far as
   ZoomMaxSteps steps of 1.05 or 0.95 away from a whole power of 20: enough for
   the 62 zoom-in steps from 1 to 20 and the 59 zoom-out steps from 1 to 0.05. *)

ZoomMaxSteps == 64
ZoomPoints == {InitialCenter}

ZoomFinest == BigPower(<<1>>, 20, ZoomMaxSteps)

NextZoom ==
    OnMouseWheel(WheelDeltas, ZoomPoints, ZoomFinest)

SpecZoom == Init /\ [][NextZoom]_vars

----------------------------------------------------------------------------
(* Loads one after another and loads in flight together: up to
   LoadsMaxPending reads at a time, in replace or append mode, delivered in
   any order, of a file whose second row does not parse and of a file whose
   second row has null for a vertex. *)

LoadsMaxPathId == 3
LoadsMaxPending == 2
LoadsFiles ==
    {File("standard", "json",
          <<Row("triangle", Red), Row("garbage", Red), Row("quad", Red)>>),
     File("standard", "json", <<Row("quad", Red), Row("hole", Red)>>)}

NextLoads ==
    \/ LoadCSV(SchemaDriven, LoadsFiles, LoadsMaxPending, LoadsMaxPathId)
    \/ ReaderOnLoad
    \/ ReaderOnError

SpecLoads == Init /\ [][NextLoads]_vars

----------------------------------------------------------------------------
(* The row splitters on every line of up to SplitMaxLen characters out of a
   quote, a comma, a space and a letter.  The editor has just been opened and
   loadCSV has started to read a file of one such line, under a header for the
   schema-driven loaders, alone for the fixed one; the read is delivered or
   fails. *)

SplitMaxLen == 4
SplitCharacters == {Quote, Comma, Space, Word(<<"a">>)}
SplitLines == UNION {[1..n -> SplitCharacters] : n \in 0..SplitMaxLen}
SplitFiles(header, style) == {File(header, style, <<RawRow(line)>>) : line \in SplitLines}
SplitReads ==
    {[variant |-> variant, file |-> file] :
        variant \in SchemaDriven, file \in SplitFiles("standard", "json")}
    \cup {[variant |-> variant, file |-> file] :
            variant \in FixedLayout, file \in SplitFiles("none", "flat")}

InitSplit ==
    /\ InitialEditor
    /\ \E read \in SplitReads : pending = <<read>>
    /\ lastOp = [calls |-> <<>>, report |-> NoReport, op |-> "loadCSV", file |-> NoFile]

NextSplit ==
    \/ ReaderOnLoad
    \/ ReaderOnError

SpecSplit == InitSplit /\ [][NextSplit]_vars

----------------------------------------------------------------------------
(* One load of a file of one or two rows of any of the Shapes, by each of the
   three loaders. *)

ShapesMaxPathId == 1
ShapesMaxPending == 1
Shapes == {"triangle", "quad", "garbage", "unclosed", "segment", "hole", "numbers", "short"}
ShapesFiles(header, style) ==
    {File(header, style, <<Row(a, Red)>>) : a \in Shapes}
    \cup {File(header, style, <<Row(a, Red), Row(b, Red)>>) : a \in Shapes, b \in Shapes}

ShapesSchemaFiles == ShapesFiles("standard", "json")
ShapesFixedFiles == ShapesFiles("none", "flat")

NextShapes ==
    \/ LoadCSV(SchemaDriven, ShapesSchemaFiles,
               ShapesMaxPending, ShapesMaxPathId)
    \/ LoadCSV(FixedLayout, ShapesFixedFiles,
               ShapesMaxPending, ShapesMaxPathId)
    \/ ReaderOnLoad
    \/ ReaderOnError

SpecShapes == Init /\ [][NextShapes]_vars

----------------------------------------------------------------------------
(* Properties *)

\* The names of the paperFunctions a handler called, in call order.
Fns(calls) == [i \in 1..Len(calls) |-> calls[i].fn]

\* The screen-space vertices of a path under the transform of the current
\* grid and tile size.
Projected(P, path) ==
    LET tr == FitTransform(P.gridColumns, P.gridRows, TileSize(P.tileSizeInput))
    IN  [j \in 1..Len(path.originalCoords) |-> ScreenPoint(tr, path.originalCoords[j])]

\* C1: from columns = 10 and rows = 7, every step of addColumn, removeColumn,
\* addRow and removeRow leaves columns >= 1 and rows >= 1; removeColumn at
\* columns = 1 (removeRow at rows = 1) returns normally with the count still 1
\* and nothing else of the scope changed.
GridFloor ==
    [][/\ gridColumns' >= 1
       /\ gridRows' >= 1
       /\ (gridColumns = 1 /\ lastOp'.op = "removeColumn"
             => gridColumns' = 1 /\ scope' = scope)
       /\ (gridRows = 1 /\ lastOp'.op = "removeRow"
             => gridRows' = 1 /\ scope' = scope)]_vars

\* removeColumn has just run on a grid of one column.
RemoveColumnAtFloor ==
    lastOp.op = "removeColumn" /\ lastOp.calls = <<>> /\ gridColumns = 1

UpdateGridReprojects ==
    lastOp.op = "updateGrid"
      => /\ "drawGrid" \in {lastOp.calls[i].fn : i \in 1..Len(lastOp.calls)}
         /\ \A i \in 1..Len(polygonPaths) :
               polygonPaths[i].segments = Projected(Cur, polygonPaths[i])

\* C4: addColumn, addRow, and removeColumn or removeRow on a count above 1,
\* call drawGrid once and then updatePolygonPositions once, and nothing else.
RebuildThenReproject ==
    [][(\/ lastOp'.op \in {"addColumn", "addRow"}
        \/ lastOp'.op = "removeColumn" /\ gridColumns > 1
        \/ lastOp'.op = "removeRow" /\ gridRows > 1)
         => Fns(lastOp'.calls) = <<"drawGrid", "updatePolygonPositions">>]_vars

\* An effective removeRow has run.
RemoveRowRebuilt ==
    lastOp.op = "removeRow" /\ Len(lastOp.calls) = 2 /\ gridRows < InitialRows

\* C6: once a grid handler has run drawGrid and updatePolygonPositions,
\* running the two again with columns, rows, tile size and polygon set as they
\* are gives every polygon the same screen-space vertices, and the grid the
\* same lines and the same background.
SecondPassChangesNothing ==
    Fns(lastOp.calls) = <<"drawGrid", "updatePolygonPositions">>
      => \E again \in {RedrawAndReproject(Cur)} :
            /\ Len(again.polygonPaths) = Len(polygonPaths)
            /\ \A i \in 1..Len(polygonPaths) :
                  again.polygonPaths[i].segments = polygonPaths[i].segments
            /\ again.gridLines = gridLines
            /\ again.gridBackground = gridBackground

\* A grid handler has reprojected polygons loaded at another tile size and
\* another number of columns.
ReprojectedAfterLoad ==
    /\ Fns(lastOp.calls) = <<"drawGrid", "updatePolygonPositions">>
    /\ Len(polygonPaths) = 2
    /\ tileSizeInput = Num(150)
    /\ gridColumns = SyncMaxColumns

\* C5: no step changes the originalCoords of a path that exists before and
\* after it: not a reprojection, a grid rebuild, a column or row edit, a
\* tile-size change, a wheel event or a drag event.
WorldVerticesKept ==
    [][\A i \in 1..Len(polygonPaths), j \in 1..Len(polygonPaths') :
          polygonPaths[i].id = polygonPaths'[j].id
            => polygonPaths'[j].originalCoords = polygonPaths[i].originalCoords]_vars

\* The wheel has turned over a polygon that a column edit and a tile-size
\* change have reprojected: its segments are no longer those of its creation.
ZoomedOverReprojected ==
    /\ lastOp.op = "onMouseWheel"
    /\ zoom # One
    /\ Len(polygonPaths) = 1
    /\ gridColumns = ViewMaxColumns
    /\ tileSizeInput = Num(150)
    /\ polygonPaths[1].segments = Projected(Cur, polygonPaths[1])

\* The channels C7 describes for input channels c: floor(c * 255) each if all
\* three are <= 1, else c; then 255 each if all three are 0.
ClaimedChannels(c) ==
    LET scaled == IF \A k \in 1..3 : RLeq(c[k], Num(1))
                  THEN [k \in 1..3 |-> RFloor(RMul(c[k], Num(255)))]
                  ELSE c
    IN  IF \A k \in 1..3 : scaled[k] = Num(0)
        THEN <<Num(255), Num(255), Num(255)>>
        ELSE scaled

\* C7: the polygon a loader creates from a row has the fill colour of the
\* channels C7 describes for the row's three colour fields ((0.5, 0.5, 0.5)
\* gives (127, 127, 127), (0, 0, 0) gives (255, 255, 255), (10, 200, 30) is
\* unchanged), in the schema-driven and in the fixed loader.
ColorNormalized ==
    lastOp.op = "reader.onload" /\ lastOp.report.polygonCount = 1
      => LET row == lastOp.file.rows[1]
             c == ClaimedChannels([k \in 1..3 |-> row.color[k][1].v])
         IN  polygonPaths[Len(polygonPaths)].fillColor
               = [k \in 1..3 |-> RDiv(c[k], Num(255))]

\* Whether a file is a batch of rows valid for its loader but for exactly one
\* row whose coordinate field does not parse.
OneUnparsableRow(file) ==
    /\ \A i \in 1..Len(file.rows) :
          file.rows[i].shape \in {"triangle", "garbage", "unclosed"}
    /\ Cardinality({i \in 1..Len(file.rows) : file.rows[i].shape # "triangle"}) = 1

\* C8: a load of n rows, valid but for one row whose coordinate field does
\* not parse, accepts n - 1 polygons and records 1 error, in the schema-driven
\* and in the fixed loader.
OneBadRowOneError ==
    lastOp.op = "reader.onload" /\ OneUnparsableRow(lastOp.file)
      => /\ lastOp.report.polygonCount = Len(lastOp.file.rows) - 1
         /\ lastOp.report.errorCount = 1

\* C9: at the end of a load by a schema-driven loader, accepted count plus
\* error count is the number of data rows: a row with fewer fields than the
\* header, with a coordinate field that does not parse, or with fewer than 3
\* vertices, creates no polygon and counts as one error.
RejectedRowsCounted ==
    (/\ lastOp.op = "reader.onload"
     /\ lastOp.report.variant \in {"append", "replace"}
     /\ lastOp.report.outcome = "loaded")
      => /\ lastOp.report.polygonCount + lastOp.report.errorCount
              = Len(lastOp.file.rows)
         /\ Len(polygonPaths) = lastOp.report.polygonCount

\* C10 as stated: a load that ends with the coordinates column not found, or
\* with a read failure, leaves polygonPaths as it was, in append and in
\* replace mode alike.
FailedLoadKeepsPolygons ==
    [][(/\ Len(pending') < Len(pending)
        /\ lastOp'.report.outcome \in {"noCoordinatesColumn", "readError"}
        /\ lastOp'.report.variant \in {"append", "replace"})
         => polygonPaths' = polygonPaths]_vars

\* C10, amended: such a load creates no path; it leaves polygonPaths as it was
\* when the read fails (either mode) and when the column is missing in append
\* mode; in replace mode a missing column leaves polygonPaths empty, the
\* tracked paths having been cleared before the header is read.
FailedLoadKeepsOrClears ==
    [][(/\ Len(pending') < Len(pending)
        /\ lastOp'.report.outcome \in {"noCoordinatesColumn", "readError"}
        /\ lastOp'.report.variant \in {"append", "replace"})
         => /\ nextPathId' = nextPathId
            /\ lastOp'.report.polygonCount = 0
            /\ IF /\ lastOp'.report.outcome = "noCoordinatesColumn"
                  /\ lastOp'.report.variant = "replace"
               THEN polygonPaths' = <<>>
               ELSE polygonPaths' = polygonPaths]_vars

\* A load in append mode of a file without a coordinates column has ended
\* with polygons of an earlier load on the canvas.
AppendFailedOverPolygons ==
    /\ lastOp.op = "reader.onload"
    /\ lastOp.report.variant = "append"
    /\ lastOp.report.outcome = "noCoordinatesColumn"
    /\ Len(polygonPaths) >= 1


\* The zoom factor a wheel event of sign delta leaves, from the current one.
ZoomAfterWheel(delta) == MouseWheelBody(zoom, center, delta, center).zoom

\* C11: the zoom factor is always within [0.05, 20]; zoom-in steps from 1 reach
\* exactly 20 (the 62nd does: 1.05^61 < 20 < 1.05^62) and a zoom-in at 20 stays
\* at 20; zoom-out steps from 1 reach exactly 0.05 (the 59th does) and a
\* zoom-out at 0.05 stays at 0.05.
ZoomWithinLimits ==
    /\ ZoomLeq(MinZoom, zoom)
    /\ ZoomLeq(zoom, MaxZoom)
    /\ (zoom = MaxZoom => ZoomAfterWheel(-1) = MaxZoom)
    /\ (zoom = MinZoom => ZoomAfterWheel(1) = MinZoom)
    /\ ((zoom.d = 0 /\ zoom.e = -zoom.u)
          => /\ zoom.u <= 61
             /\ (zoom.u = 61 => ZoomAfterWheel(-1) = MaxZoom)
             /\ (zoom.u < 61 => ZoomAfterWheel(-1) = ZoomTimes(zoom, ZoomIn)))
    /\ ((zoom.u = 0 /\ zoom.e = -zoom.d)
          => /\ zoom.d <= 58
             /\ (zoom.d = 58 => ZoomAfterWheel(1) = MinZoom)
             /\ (zoom.d < 58 => ZoomAfterWheel(1) = ZoomTimes(zoom, ZoomOut)))

\* The wheel has brought the zoom factor to exactly 20.
ZoomedToMax ==
    /\ lastOp.op = "onMouseWheel"
    /\ zoom = MaxZoom


\* The world vertices written in a row of the given shape.
WrittenVertices(shape) ==
    LET xy(x, y) == JArr(<<JNum(Num(x)), JNum(Num(y))>>)
    IN  CASE shape = "triangle" -> <<xy(0, 0), xy(300, 0), xy(300, 300)>>
          [] shape = "quad" -> <<xy(0, 0), xy(600, 0), xy(600, 300), xy(0, 300)>>

\* The polygons a loader accepts from a file, as their world vertices in
\* row order: those of its triangles and quads, if it has a coordinates column.
AcceptedFrom(file) ==
    IF file.header = "nocoords" THEN <<>>
    ELSE LET good == SelectSeq(file.rows, LAMBDA row : row.shape \in {"triangle", "quad"})
         IN  [k \in 1..Len(good) |-> WrittenVertices(good[k].shape)]

WorldVertices(paths) == [k \in 1..Len(paths) |-> paths[k].originalCoords]
GridItems(items) == SelectSeq(items, LAMBDA x : x.kind # "path")

\* C12: a delivered load in append mode leaves the prior polygons, unchanged
\* and in their order, followed by the polygons accepted from the file in row
\* order; in replace mode it leaves exactly the polygons accepted from the
\* file, every polygon loaded before is gone from polygonPaths and from the
\* layer, and the grid lines and the background stay as they were.
LoadAppendsOrReplaces ==
    [][lastOp'.op = "reader.onload"
         => /\ (lastOp'.report.variant = "append"
                  => /\ Len(polygonPaths') >= Len(polygonPaths)
                     /\ SubSeq(polygonPaths', 1, Len(polygonPaths)) = polygonPaths
                     /\ WorldVertices(SubSeq(polygonPaths', Len(polygonPaths) + 1,
                                             Len(polygonPaths')))
                          = AcceptedFrom(lastOp'.file))
            /\ (lastOp'.report.variant = "replace"
                  => /\ WorldVertices(polygonPaths') = AcceptedFrom(lastOp'.file)
                     /\ \A k \in 1..Len(polygonPaths) :
                           /\ \A j \in 1..Len(polygonPaths') :
                                 polygonPaths'[j].id # polygonPaths[k].id
                           /\ \A j \in 1..Len(layer') :
                                 layer'[j] # Item("path", polygonPaths[k].id)
                     /\ GridItems(layer') = GridItems(layer)
                     /\ gridLines' = gridLines
                     /\ gridBackground' = gridBackground)]_vars

\* A replace load of two accepted rows has been delivered over the polygons
\* of an earlier load.
ReplacedEarlierLoad ==
    /\ lastOp.op = "reader.onload"
    /\ lastOp.report.variant = "replace"
    /\ lastOp.report.polygonCount = 2
    /\ Len(polygonPaths) = 2
    /\ polygonPaths[1].id > 1


\* The commas of a line outside its quoted spans: those with an even number
\* of quotes before them.
OuterCommas(line) ==
    {i \in 1..Len(line) :
        /\ line[i] = Comma
        /\ Cardinality({j \in 1..(i - 1) : line[j] = Quote}) % 2 = 0}

\* The fields C13 describes for a line: the stretches between consecutive
\* outer commas, without their quotes.
FieldsBetweenOuterCommas(line) ==
    LET cuts == OuterCommas(line)
        cut(k) == IF k = 0 THEN 0
                  ELSE IF k > Cardinality(cuts) THEN Len(line) + 1
                  ELSE CHOOSE i \in cuts : Cardinality({j \in cuts : j <= i}) = k
    IN  [k \in 1..(Cardinality(cuts) + 1) |->
            SelectSeq(SubSeq(line, cut(k - 1) + 1, cut(k) - 1), LAMBDA t : t # Quote)]

\* C13: both row splitters give, for a line, one field more than it has commas
\* outside quoted spans; the fields are the stretches between those commas,
\* commas inside quotes kept as characters and the quotes themselves left out
\* (the whole-text splitter trims each line and each field, and skips blank
\* lines).
SplitAtOuterCommas ==
    lastOp.op = "reader.onload"
      => IF lastOp.report.variant = "fixed"
         THEN LET lines == SelectSeq([i \in 1..Len(FileText(lastOp.file)) |->
                                         Trim(FileText(lastOp.file)[i])],
                                     LAMBDA l : Len(l) > 0)
                  rows == ParseCSVText(FileText(lastOp.file))
              IN  /\ Len(rows) = Len(lines)
                  /\ \A i \in 1..Len(lines) :
                        /\ Len(rows[i]) = Cardinality(OuterCommas(lines[i])) + 1
                        /\ rows[i] = [k \in 1..Len(rows[i]) |->
                                         Trim(FieldsBetweenOuterCommas(lines[i])[k])]
         ELSE LET lines == TrimAndSplitLines(FileText(lastOp.file))
              IN  \A i \in 2..Len(lines) :
                     /\ Len(ParseCSVRowJS(lines[i])) = Cardinality(OuterCommas(lines[i])) + 1
                     /\ ParseCSVRowJS(lines[i]) = FieldsBetweenOuterCommas(lines[i])

\* The append loader has split the line `",",` : two fields, a comma and an
\* empty one.
SplitQuotedComma ==
    /\ lastOp.op = "reader.onload"
    /\ lastOp.report.variant = "append"
    /\ FileText(lastOp.file)[2] = <<Quote, Comma, Quote, Comma>>
    /\ ParseCSVRowJS(TrimAndSplitLines(FileText(lastOp.file))[2]) = << <<Comma>>, <<>> >>


\* C14: every loaded polygon lies above the grid background and above every
\* grid line in the drawing order of the layer (later in `layer` is above).
PolygonsAboveGrid ==
    \A k \in 1..Len(polygonPaths) :
        \A i, j \in 1..Len(layer) :
            (/\ layer[i] = Item("path", polygonPaths[k].id)
             /\ layer[j].kind \in {"line", "background"})
              => j < i


\* C17: after every grid rebuild the layer holds exactly one background
\* rectangle and exactly (gridColumns + 1) vertical plus (gridRows + 1)
\* horizontal grid lines, each of them a line of the latest rebuild: nothing
\* of an earlier rebuild remains.
OneGridOnSurface ==
    LET backgrounds == {i \in 1..Len(layer) : layer[i].kind = "background"}
        lines == {i \in 1..Len(layer) : layer[i].kind = "line"}
        vertical == {k \in 1..Len(gridLines) : gridLines[k].from[1] = gridLines[k].to[1]}
        horizontal == {k \in 1..Len(gridLines) : gridLines[k].from[2] = gridLines[k].to[2]}
    IN  /\ Cardinality(backgrounds) = 1
        /\ gridBackground.present
        /\ Cardinality(lines) = (gridColumns + 1) + (gridRows + 1)
        /\ Len(gridLines) = (gridColumns + 1) + (gridRows + 1)
        /\ Cardinality(vertical) = gridColumns + 1
        /\ Cardinality(horizontal) = gridRows + 1
        /\ \A i \in lines :
              Cardinality({k \in 1..Len(gridLines) : gridLines[k].id = layer[i].id}) = 1
        /\ \A i, j \in lines : layer[i].id = layer[j].id => i = j

\* The grid has been rebuilt for a smaller tile size and then for one row
\* more and one column fewer than it started with.
GridRebuiltSmaller ==
    /\ lastOp.op = "removeColumn"
    /\ gridColumns = InitialColumns - 1
    /\ gridRows = InitialRows + 1
    /\ tileSizeInput = Num(150)


\* Whether v is a pair of numbers, neither of them NaN.
IsNumericPair(v) ==
    /\ v.t = "arr"
    /\ Len(v.e) = 2
    /\ \A c \in 1..2 : v.e[c].t = "num" /\ ~IsNaN(v.e[c].v)

\* C15: every polygon of polygonPaths has at least 3 vertices, each of them a
\* pair of numeric (non-NaN) world coordinates; a load makes no more polygons
\* than its file has rows whose coordinate field is a list of numeric pairs.
PolygonsAreNumericPairs ==
    /\ \A k \in 1..Len(polygonPaths) :
          /\ Len(polygonPaths[k].originalCoords) >= 3
          /\ \A j \in 1..Len(polygonPaths[k].originalCoords) :
                IsNumericPair(polygonPaths[k].originalCoords[j])
    /\ (lastOp.op = "reader.onload"
          => lastOp.report.polygonCount
               <= Len(SelectSeq(lastOp.file.rows,
                                LAMBDA row : row.shape \in {"triangle", "quad", "unclosed"})))


\* C16: the fill colour of every polygon of polygonPaths has three channels
\* within 0..255 (the colour holds each channel divided by 255, so within
\* 0..1), whatever numbers the colour fields of its row are.
FillColorInRange ==
    \A k \in 1..Len(polygonPaths) :
        \A c \in 1..3 :
            /\ RLeq(Num(0), polygonPaths[k].fillColor[c])
            /\ RLeq(polygonPaths[k].fillColor[c], Num(1))


\* C18: two loads in flight together (the second issued before the first was
\* delivered), delivered in either order.  Each delivery handles its whole
\* file in one step.  After the second delivery: if it is a replace load,
\* polygonPaths holds exactly the polygons accepted from its file; if both are
\* append loads, polygonPaths ends with the polygons accepted from the file
\* delivered first followed by those of the file delivered second.
OverlappingLoadsSettle ==
    [][(/\ lastOp.op = "reader.onload"
        /\ Len(pending) >= 1
        /\ lastOp'.op = "reader.onload")
         => LET first == AcceptedFrom(lastOp.file)
                second == AcceptedFrom(lastOp'.file)
                after == WorldVertices(polygonPaths')
            IN  /\ lastOp'.report.polygonCount = Len(second)
                /\ lastOp.report.polygonCount = Len(first)
                /\ (lastOp'.report.variant = "replace" => after = second)
                /\ (lastOp'.report.variant = "append"
                      => /\ Len(after) >= Len(first) + Len(second)
                         /\ SubSeq(after, Len(after) - Len(first) - Len(second) + 1,
                                   Len(after)) = first \o second)
                /\ (lastOp.report.variant = "replace"
                      /\ lastOp'.report.variant = "append"
                      => after = first \o second)]_vars

\* Of two replace loads of different files in flight together, one has been
\* delivered and the other is still being read.
SecondReplaceInFlight ==
    /\ lastOp.op = "reader.onload"
    /\ lastOp.report.variant = "replace"
    /\ Len(polygonPaths) = 2
    /\ Len(pending) = 1
    /\ pending[1].variant = "replace"
    /\ pending[1].file # lastOp.file


\* C19: every path in the layer is one of polygonPaths, so that clearPolygons
\* removes every shape the loads have created.
ShapesAreTracked ==
    \A i \in 1..Len(layer) :
        layer[i].kind = "path"
          => \E k \in 1..Len(polygonPaths) : polygonPaths[k].id = layer[i].id

====
